---------------------------- MODULE Spec2Model ----------------------------
(***************************************************************************)
(* Battle-AI: minimax action selection over a turn queue                   *)
(* (a2_playstyle.py, a2_tree_of_states.py), the skills that change the     *)
(* queue (a2_skills.py) and the skill decision tree                        *)
(* (a2_skill_decision_tree.py).                                            *)
(*                                                                         *)
(* BattleQueue and Character are not among the source files.  They are     *)
(* modelled from the contract in spec.md sections 3 and 6: a plain FIFO of *)
(* actors with peek / remove / add / copy / is_over / get_winner, and      *)
(* actors with a name, HP, SP and an ordered list of legal actions.  The   *)
(* numbers the contract leaves open (defence values) are fixed by the      *)
(* doctests of a2_skills.py, and the model reproduces the doctests of      *)
(* get_state_score (100, 40, -10 and 7).                                   *)
(***************************************************************************)
EXTENDS Integers, Sequences, FiniteSets, TLC

VARIABLES bq, op, res, tree, duel, picked

vars == <<bq, op, res, tree, duel, picked>>

(***************************************************************************)
(* Bounds of the model.                                                    *)
(***************************************************************************)
MaxQueue == 2
MaxNodes == 4

(***************************************************************************)
(* The two combatants.  Player 1 is the Mage "m", player 2 the Rogue "r",  *)
(* as in the doctests of a2_playstyle.py.                                  *)
(***************************************************************************)
Players == {1, 2}

get_name(p) == IF p = 1 THEN "m" ELSE "r"

kind(p) == IF p = 1 THEN "Mage" ELSE "Rogue"

enemy(p) == 3 - p

(***************************************************************************)
(* Skill costs and damages (a2_skills.py).                                 *)
(***************************************************************************)
MageAttackCost == 5
MageAttackDamage == 20
MageSpecialCost == 30
MageSpecialDamage == 40
RogueAttackCost == 3
RogueAttackDamage == 15
RogueSpecialCost == 10
RogueSpecialDamage == 20

(* Defence: MageSpecial (40) takes a Rogue from 100 to 70, RogueSpecial    *)
(* (20) takes a Mage from 100 to 88 (doctests of a2_skills.py).            *)
MageDefense == 8
RogueDefense == 10

get_sp_cost(k, a) ==
  IF k = "Mage" THEN (IF a = "A" THEN MageAttackCost ELSE MageSpecialCost)
  ELSE (IF a = "A" THEN RogueAttackCost ELSE RogueSpecialCost)

skill_damage(k, a) ==
  IF k = "Mage" THEN (IF a = "A" THEN MageAttackDamage ELSE MageSpecialDamage)
  ELSE (IF a = "A" THEN RogueAttackDamage ELSE RogueSpecialDamage)

defense(k) == IF k = "Mage" THEN MageDefense ELSE RogueDefense

MaxOf(S) == CHOOSE x \in S : \A y \in S : y <= x

MinOf(S) == CHOOSE x \in S : \A y \in S : x <= y

(***************************************************************************)
(* Character (modelled from spec.md section 6).                            *)
(***************************************************************************)
Actions == <<"A", "S">>

is_valid_action(q, p, a) == q.sp[p] >= get_sp_cost(kind(p), a)

get_available_actions(q, p) ==
  SelectSeq(Actions, LAMBDA a : is_valid_action(q, p, a))

(* Skill._deal_damage: the caster pays the cost, the target loses          *)
(* damage - defence, never below 0.                                        *)
deal_damage(q, p, a) ==
  LET t == enemy(p)
      lost == skill_damage(kind(p), a) - defense(kind(t))
      left == IF q.hp[t] - lost < 0 THEN 0 ELSE q.hp[t] - lost
  IN [q EXCEPT !.sp[p] = @ - get_sp_cost(kind(p), a), !.hp[t] = left]

(* Skill.use: damage, then the actors the skill puts back on the queue.    *)
queue_adds(p, a) ==
  IF a = "A" THEN <<p>>
  ELSE IF kind(p) = "Mage" THEN <<enemy(p), p>>
  ELSE <<p, p>>

use(q, p, a) ==
  LET d == deal_damage(q, p, a)
  IN [d EXCEPT !.content = @ \o queue_adds(p, a)]

(***************************************************************************)
(* BattleQueue (modelled from spec.md sections 3 and 6).                   *)
(***************************************************************************)
is_empty(q) == q.content = <<>>

peek(q) == q.content[1]

remove(q) == [q EXCEPT !.content = Tail(@)]

add(q, p) == [q EXCEPT !.content = Append(@, p)]

is_over(q) == is_empty(q) \/ q.hp[1] = 0 \/ q.hp[2] = 0

(* 0 stands for None: not over, or over with nobody left standing alone.   *)
get_winner(q) ==
  IF ~is_over(q) THEN 0
  ELSE IF q.hp[1] = 0 /\ q.hp[2] > 0 THEN 2
  ELSE IF q.hp[2] = 0 /\ q.hp[1] > 0 THEN 1
  ELSE 0

(* copy(): an independent queue with the same order and the same stats.    *)
(* A queue object is a value plus the identity of the object holding it.   *)
copy(h) == [ref |-> h.ref + 1, q |-> h.q]

(***************************************************************************)
(* Results of a call: a value or a raised fault.                           *)
(***************************************************************************)
Ok(v) == [fault |-> FALSE, val |-> v, act |-> "-"]

Fault == [fault |-> TRUE, val |-> 0, act |-> "-"]

Chose(a) == [fault |-> FALSE, val |-> 0, act |-> a]

NoResult == [fault |-> FALSE, val |-> 0, act |-> "-"]

(* The live queue is the object with identity 0.                           *)
Live(q) == [ref |-> 0, q |-> q]

(***************************************************************************)
(* get_state_score (a2_playstyle.py:111-180).                              *)
(***************************************************************************)

(* Expand without the copy of line 170: the action hits the queue given.   *)
ExpandInPlace(h, a) ==
  LET c1 == [h EXCEPT !.q = use(@, peek(@), a)]
      c2 == IF ~is_empty(c1.q) THEN [c1 EXCEPT !.q = remove(@)] ELSE c1
  IN [succ |-> c2, orig |-> IF c2.ref = h.ref THEN c2 ELSE h]

(* Lines 170-177: one successor.  The action is applied to a copy; orig is *)
(* the queue object the function was given, as it is afterwards.           *)
Expand(h, a) ==
  LET c  == copy(h)
      c1 == [c EXCEPT !.q = use(@, peek(@), a)]
      c2 == IF ~is_empty(c1.q) THEN [c1 EXCEPT !.q = remove(@)] ELSE c1
  IN [succ |-> c2, orig |-> IF c2.ref = h.ref THEN c2 ELSE h]

Successor(q, a) == Expand(Live(q), a).succ.q

(* TerminalScore without the sign of line 165.                             *)
TerminalScoreUnsigned(q) ==
  IF get_winner(q) # 0
  THEN IF is_empty(q) THEN Fault ELSE Ok(q.hp[get_winner(q)])
  ELSE Ok(0)

(* Lines 158-166: the score of a state that is over.  peek() of an empty   *)
(* queue raises.                                                           *)
TerminalScore(q) ==
  IF get_winner(q) # 0
  THEN IF is_empty(q) THEN Fault
       ELSE IF get_name(peek(q)) = get_name(get_winner(q))
            THEN Ok(q.hp[peek(q)])
            ELSE Ok(-1 * q.hp[get_winner(q)])
  ELSE Ok(0)

(* SignedScore without the negation of line 178.                           *)
SignedScoreNoFlip(q, s, v) == v

(* SignedScore deciding by object identity: the head of a copy is never    *)
(* the object at the head of the original, so every score is negated.      *)
SignedScoreByIdentity(q, s, v) == -1 * v

(* Lines 178-180: a successor's score seen by the actor who moved in q.    *)
SignedScore(q, s, v) ==
  IF get_name(peek(q)) # get_name(peek(s)) THEN -1 * v ELSE v

RECURSIVE get_state_score(_)

ChildScore(q, s) ==
  IF is_empty(s) THEN Fault
  ELSE LET r == get_state_score(s)
       IN IF r.fault THEN Fault ELSE Ok(SignedScore(q, s, r.val))

(* max() of no successor raises ValueError; a fault in a successor         *)
(* propagates.                                                             *)
get_state_score(q) ==
  IF is_over(q) THEN TerminalScore(q)
  ELSE LET acts == get_available_actions(q, peek(q))
           kids == {ChildScore(q, Successor(q, acts[i])) : i \in 1..Len(acts)}
       IN IF kids = {} \/ (\E r \in kids : r.fault) THEN Fault
          ELSE Ok(MaxOf({r.val : r \in kids}))

RECURSIVE ExpandAll(_, _)
(* The queue object given to get_state_score after every successor has    *)
(* been built (the loop of lines 169-177).                                 *)
ExpandAll(h, acts) ==
  IF acts = <<>> THEN h ELSE ExpandAll(Expand(h, Head(acts)).orig, Tail(acts))

ScoreLive(h) ==
  IF is_over(h.q) THEN h
  ELSE ExpandAll(h, get_available_actions(h.q, peek(h.q)))

(***************************************************************************)
(* RecursiveMinimax.select_attack (a2_playstyle.py:206-257).               *)
(***************************************************************************)

(* Lines 232-236 and 246-248: the successor the selector builds.  After    *)
(* 'A' the head leaves unless the game is over, after 'S' unless the queue *)
(* is empty.                                                               *)
SelectExpand(h, a) ==
  LET c  == copy(h)
      c1 == [c EXCEPT !.q = use(@, peek(@), a)]
      go == IF a = "A" THEN ~is_over(c1.q) ELSE ~is_empty(c1.q)
      c2 == IF go THEN [c1 EXCEPT !.q = remove(@)] ELSE c1
  IN [succ |-> c2, orig |-> IF c2.ref = h.ref THEN c2 ELSE h]

SelectSuccessor(q, a) == SelectExpand(Live(q), a).succ.q

OtherAction(a) == IF a = "A" THEN "S" ELSE "A"

InSeq(x, s) == \E i \in 1..Len(s) : s[i] = x

(* The loop returns in its first iteration: the first action if its score  *)
(* equals the score of the state, else the other action if it is legal,    *)
(* else 'X'.                                                               *)
recursive_select_attack(q) ==
  IF is_empty(q) THEN Fault
  ELSE LET actions == get_available_actions(q, peek(q))
       IN IF actions = <<>> THEN Chose("X")
          ELSE LET current_state_score == get_state_score(q)
                   a == actions[1]
                   s == SelectSuccessor(q, a)
                   r == ChildScore(q, s)
               IN IF current_state_score.fault \/ r.fault THEN Fault
                  ELSE IF r.val = current_state_score.val THEN Chose(a)
                  ELSE IF InSeq(OtherAction(a), actions)
                       THEN Chose(OtherAction(a))
                       ELSE Chose("X")

(* The selector's own queue object after the call.                         *)
RecursiveLive(h) ==
  IF is_empty(h.q) THEN h
  ELSE LET actions == get_available_actions(h.q, peek(h.q))
       IN IF actions = <<>> THEN h
          ELSE LET h1 == ScoreLive(h)
               IN IF get_state_score(h.q).fault THEN h1
                  ELSE SelectExpand(h1, actions[1]).orig

(***************************************************************************)
(* TOS and get_children_and_update (a2_tree_of_states.py).                 *)
(***************************************************************************)

(* TOS.__init__ (lines 61-69) and the fields lines 107-121 set.  A node's  *)
(* caster is the head of its own queue; last_round is the index of the     *)
(* parent node, 0 for None.                                                *)
TOS(q, parent, lrc, action, score) ==
  [battle_q |-> q, caster |-> peek(q), last_round |-> parent,
   last_round_caster |-> lrc, last_round_taken_action |-> action,
   score |-> score]

(* Lines 97-105: the child's queue.  The head leaves only if the game is   *)
(* not over and both the head and its enemy have a legal action.           *)
TreeExpand(h, a) ==
  LET acted(c)    == [c EXCEPT !.q = use(@, peek(@), a)]
      go(q)       == /\ ~is_over(q)
                     /\ get_available_actions(q, peek(q)) # <<>>
                     /\ get_available_actions(q, enemy(peek(q))) # <<>>
      rotated(c1) == IF go(c1.q) THEN [c1 EXCEPT !.q = remove(@)] ELSE c1
      result(c2)  == [succ |-> c2, orig |-> IF c2.ref = h.ref THEN c2 ELSE h]
  IN result(rotated(acted(copy(h))))

(* The queue of the child get_children_and_update builds for action a.     *)
TreeSuccessor(q, a) == TreeExpand(Live(q), a).succ.q

(* ChildInitialScore with the tests of lines 110 and 116 exchanged: the    *)
(* winner's HP is negated when the winner is the child's caster.           *)
ChildInitialScoreSwapped(q) ==
  IF get_winner(q) # 0 /\ get_winner(q) # peek(q)
  THEN <<q.hp[get_winner(q)]>>
  ELSE IF is_over(q) /\ get_winner(q) = 0 THEN <<0>>
  ELSE IF get_winner(q) # 0 THEN <<-1 * q.hp[get_winner(q)]>>
  ELSE <<>>

(* Lines 110-121: the score a child is created with.                       *)
ChildInitialScore(q) ==
  IF get_winner(q) # 0 /\ get_winner(q) = peek(q)
  THEN <<q.hp[get_winner(q)]>>
  ELSE IF is_over(q) /\ get_winner(q) = 0 THEN <<0>>
  ELSE IF get_winner(q) # 0 THEN <<-1 * q.hp[get_winner(q)]>>
  ELSE <<>>

(* Lines 96-122: one child of node t (index ti) for one action.            *)
MakeChild(t, ti, a) ==
  LET child(q) == TOS(q, ti, get_name(t.caster), a, ChildInitialScore(q))
  IN child(TreeExpand(Live(t.battle_q), a).succ.q)

NumActions(t) == Len(get_available_actions(t.battle_q, t.caster))

RECURSIVE ChildrenFrom(_, _, _)
ChildrenFrom(t, ti, acts) ==
  IF acts = <<>> THEN <<>>
  ELSE <<MakeChild(t, ti, Head(acts))>> \o ChildrenFrom(t, ti, Tail(acts))

(* get_children_and_update: the children of one node, in action order.     *)
get_children_and_update(t, ti) ==
  IF is_over(t.battle_q) THEN <<>>
  ELSE ChildrenFrom(t, ti, get_available_actions(t.battle_q, t.caster))

RECURSIVE get_children(_, _)
(* get_children (lines 148-159) on a list of nodes: every node of the      *)
(* level gets its children; st.nodes is the tree so far, st.level the      *)
(* indices of the new level.                                               *)
get_children(st, lot) ==
  IF lot = <<>> THEN st
  ELSE LET n == Len(st.nodes)
           grown(kids) ==
             [nodes |-> st.nodes \o kids,
              level |-> st.level \o [k \in 1..Len(kids) |-> n + k]]
       IN get_children(
            grown(get_children_and_update(st.nodes[Head(lot)], Head(lot))),
            Tail(lot))

(***************************************************************************)
(* IterativeMinimax (a2_playstyle.py:267-402).                             *)
(*                                                                         *)
(* A path entry [caster, last_round_caster, action, score] is the index of *)
(* its node (the caster object is the head of that node's own queue, so    *)
(* two entries hold the same caster object exactly when they are entries   *)
(* of the same node) and a reference to a score list.  Score lists are     *)
(* objects: cells[k] is the list with identity k, node i is created with   *)
(* list i.  Path indices and positions are 1-based here: Python's          *)
(* (pathIndex, position) is <<pathIndex + 1, position + 1>>.               *)
(***************************************************************************)
Entry(i) == [node |-> i, cell |-> i]

NodeKey(i) == [kind |-> "node", id |-> i, name |-> ""]

NameKey(nm) == [kind |-> "name", id |-> 0, name |-> nm]

SnppcHas(snppc, key) == \E k \in 1..Len(snppc) : snppc[k].key = key

SnppcAt(snppc, key) == CHOOSE k \in 1..Len(snppc) : snppc[k].key = key

(* snppc[key] = pos  (line 309, lines 328-329).                            *)
SnppcSet(snppc, key, pos) ==
  IF SnppcHas(snppc, key)
  THEN [snppc EXCEPT ![SnppcAt(snppc, key)].pos = pos]
  ELSE Append(snppc, [key |-> key, pos |-> pos])

(* Lines 323-329: append to the key's list, or start it.                   *)
SnppcAdd(snppc, key, p) ==
  IF SnppcHas(snppc, key)
  THEN [snppc EXCEPT ![SnppcAt(snppc, key)].pos = Append(@, p)]
  ELSE Append(snppc, [key |-> key, pos |-> <<p>>])

RECURSIVE FirstPaths(_, _)
(* Lines 298-309: the children of the root that are over.                  *)
FirstPaths(T, tloc) ==
  IF tloc = <<>> THEN T
  ELSE LET ci == Head(tloc)
           c  == T.nodes[ci]
           T1 == IF is_over(c.battle_q)
                 THEN [T EXCEPT
                         !.possible_paths =
                            Append(@, <<Entry(ci), Entry(c.last_round)>>),
                         !.snppc =
                            IF NumActions(T.nodes[c.last_round]) = 2
                            THEN SnppcSet(@, NameKey(c.last_round_caster),
                                          <<<<1, 2>>>>)
                            ELSE @]
                 ELSE T
       IN FirstPaths(T1, Tail(tloc))

RECURSIVE WalkUp(_, _, _, _)
(* Lines 316-330: from a leaf to the root, recording every ancestor whose  *)
(* caster has two legal actions.                                           *)
WalkUp(T, ci, path, snppc) ==
  LET pi == T.nodes[ci].last_round
  IN IF pi = 0 THEN [path |-> path, snppc |-> snppc]
     ELSE LET path1 == Append(path, Entry(pi))
              here  == <<Len(T.possible_paths) + 1, Len(path1)>>
          IN WalkUp(T, pi, path1,
                    IF NumActions(T.nodes[pi]) = 2
                    THEN SnppcAdd(snppc, NodeKey(pi), here)
                    ELSE snppc)

RECURSIVE LevelPaths(_, _)
(* Lines 312-331: the nodes of a new level that are over.                  *)
LevelPaths(T, tloc) ==
  IF tloc = <<>> THEN T
  ELSE LET ci == Head(tloc)
           recorded(w) == [T EXCEPT !.possible_paths = Append(@, w.path),
                                    !.snppc = w.snppc]
       IN LevelPaths(IF is_over(T.nodes[ci].battle_q)
                     THEN recorded(WalkUp(T, ci, <<Entry(ci)>>, T.snppc))
                     ELSE T,
                     Tail(tloc))

RECURSIVE WholeTreeLoop(_, _)
(* Lines 310-331: level after level until a level is empty.                *)
WholeTreeLoop(T, tloc) ==
  IF tloc = <<>> THEN T
  ELSE LET level(g) ==
             WholeTreeLoop(LevelPaths([T EXCEPT !.nodes = g.nodes], g.level),
                           g.level)
       IN level(get_children([nodes |-> T.nodes, level |-> <<>>], tloc))

(* helper_get_the_whole_tree (lines 294-332) on a copy of the queue.  Node *)
(* 1 is the root; children are the indices of the root's children.         *)
helper_get_the_whole_tree(q) ==
  LET root == TOS(copy(Live(q)).q, 0, "", "", <<>>)
      T0(g) == [nodes |-> g.nodes, children |-> g.level,
                possible_paths |-> <<>>, snppc |-> <<>>]
      grow(g) == WholeTreeLoop(FirstPaths(T0(g), g.level), g.level)
  IN grow(get_children([nodes |-> <<root>>, level |-> <<>>], <<1>>))

(* A new score list object holding v, bound to entry i of path p.          *)
Rebind(S, p, i, v) ==
  [S EXCEPT !.cells = Append(@, v),
            !.paths[p][i].cell = Len(S.cells) + 1]

RECURSIVE RebindAll(_, _, _)
(* Lines 367-369: every recorded position gets its own copy of v.          *)
RebindAll(S, pos, v) ==
  IF pos = <<>> THEN S
  ELSE RebindAll(Rebind(S, Head(pos)[1], Head(pos)[2], v), Tail(pos), v)

(* Lines 346-374: entry i of path p (the child) and entry i + 1 (the       *)
(* parent).  brk is the break of line 370.                                 *)
AssignStep(T, S, p, i) ==
  LET c    == S.paths[p][i]
      par  == S.paths[p][i + 1]
      cs   == S.cells[c.cell]
      ps   == S.cells[par.cell]
      same == get_name(T.nodes[c.node].caster)
                = get_name(T.nodes[par.node].caster)
      two  == NumActions(T.nodes[par.node]) = 2
      v    == IF same THEN cs[1] ELSE -1 * cs[1]
  IN IF cs # <<>> /\ ps # <<>>
     THEN IF two
          THEN LET all == Append(ps, v)
                   S1  == [S EXCEPT !.cells[par.cell] = all]
                   best == MaxOf({all[k] : k \in 1..Len(all)})
               IN [S |-> Rebind(S1, p, i + 1, <<best, v>>), brk |-> FALSE]
          ELSE [S |-> [S EXCEPT !.cells[par.cell] = Append(@, v)],
                brk |-> FALSE]
     ELSE IF cs # <<>> /\ ps = <<>>
     THEN LET nv == IF same THEN cs ELSE <<v>>
              S1 == Rebind(S, p, i + 1, nv)
          IN IF two
             THEN [S |-> IF SnppcHas(T.snppc, NodeKey(par.node))
                         THEN RebindAll(S1,
                                T.snppc[SnppcAt(T.snppc,
                                                NodeKey(par.node))].pos, nv)
                         ELSE S1,
                   brk |-> TRUE]
             ELSE [S |-> S1, brk |-> FALSE]
     ELSE [S |-> S, brk |-> FALSE]

RECURSIVE AssignPath(_, _, _, _)
(* Line 345: for i in range(len(path) - 1).                                *)
AssignPath(T, S, p, i) ==
  IF i > Len(S.paths[p]) - 1 THEN S
  ELSE LET after(r) == IF r.brk THEN r.S ELSE AssignPath(T, r.S, p, i + 1)
       IN after(AssignStep(T, S, p, i))

RECURSIVE AssignPaths(_, _, _)
(* Line 344: for path in t.possible_paths.                                 *)
AssignPaths(T, S, p) ==
  IF p > Len(S.paths) THEN S
  ELSE AssignPaths(T, AssignPath(T, S, p, 1), p + 1)

(* helper_assign_all_scores (lines 343-375): the tree with the scores of   *)
(* its path entries.                                                       *)
helper_assign_all_scores(q) ==
  LET scored(T, S) ==
        [nodes |-> T.nodes, children |-> T.children, snppc |-> T.snppc,
         possible_paths |-> S.paths, cells |-> S.cells]
      assign(T) ==
        scored(T, AssignPaths(T,
                    [paths |-> T.possible_paths,
                     cells |-> [k \in 1..Len(T.nodes) |-> T.nodes[k].score]],
                    1))
  IN assign(helper_get_the_whole_tree(q))

(* path[k][3] and path[k][2] of an entry.                                  *)
EntryScore(t, e) == t.cells[e.cell]

EntryAction(t, e) == t.nodes[e.node].last_round_taken_action

EntryName(t, e) == get_name(t.nodes[e.node].caster)

RECURSIVE ScanPaths(_, _, _)
(* Lines 388-395: the first path whose entry below the root matches.       *)
ScanPaths(t, score, p) ==
  IF p > Len(t.possible_paths) THEN Chose("X")
  ELSE LET path == t.possible_paths[p]
           e    == path[Len(path) - 1]
           sc   == EntryScore(t, e)
           want == IF EntryName(t, e) = get_name(t.nodes[1].caster)
                   THEN score ELSE -1 * score
       IN IF sc # <<>> /\ sc[1] = want THEN Chose(EntryAction(t, e))
          ELSE ScanPaths(t, score, p + 1)

(* SelectFromTree without the test of lines 383-384.                       *)
SelectFromTreeNoGuard(t) ==
  IF t.possible_paths = <<>> THEN Fault
  ELSE IF Len(t.children) = 1
       THEN LET path == t.possible_paths[1]
            IN Chose(EntryAction(t, path[Len(path) - 1]))
  ELSE LET last == t.possible_paths[Len(t.possible_paths)]
           root == EntryScore(t, last[Len(last)])
       IN IF root = <<>> THEN Fault ELSE ScanPaths(t, root[1], 1)

(* Lines 382-395.  Indexing an empty list raises IndexError.               *)
SelectFromTree(t) ==
  IF t.children = <<>> THEN Chose("X")
  ELSE IF t.possible_paths = <<>> THEN Fault
  ELSE IF Len(t.children) = 1
       THEN LET path == t.possible_paths[1]
            IN Chose(EntryAction(t, path[Len(path) - 1]))
  ELSE LET last == t.possible_paths[Len(t.possible_paths)]
           root == EntryScore(t, last[Len(last)])
       IN IF root = <<>> THEN Fault ELSE ScanPaths(t, root[1], 1)

(* TOS(copy) peeks the queue: an empty queue raises.                       *)
iterative_select_attack(q) ==
  IF is_empty(q) THEN Fault ELSE SelectFromTree(helper_assign_all_scores(q))

RECURSIVE TreeExpandAll(_, _)
TreeExpandAll(h, acts) ==
  IF acts = <<>> THEN h
  ELSE TreeExpandAll(TreeExpand(h, Head(acts)).orig, Tail(acts))

(* Line 294: the tree is built on a copy of the selector's queue; the      *)
(* selector's own queue object afterwards.                                 *)
IterativeLive(h) ==
  IF is_empty(h.q) THEN h
  ELSE LET built(c) ==
             IF is_over(c.q) THEN c
             ELSE TreeExpandAll(c, get_available_actions(c.q, peek(c.q)))
           live(c1) == IF c1.ref = h.ref THEN c1 ELSE h
       IN live(built(copy(h)))

(***************************************************************************)
(* SkillDecisionTree (a2_skill_decision_tree.py).                          *)
(*                                                                         *)
(* A tree is its nodes 1..n, node 1 the root: parent[i] (0 for the root),  *)
(* priority[i], condition[i] (the name of the condition function) and      *)
(* value[i], the skill object of the node, with skill[v] the class of      *)
(* skill object v.  The children of a node are in index order.  A duel is  *)
(* the caster and the target the tree is asked about.                      *)
(***************************************************************************)
Condition(name, d) ==
  CASE name = "caster_hp_more_than_50" -> d.caster.hp > 50
    [] name = "caster_sp_more_than_20" -> d.caster.sp > 20
    [] name = "target_hp_less_than_30" -> d.target.hp < 30
    [] name = "target_sp_more_than_40" -> d.target.sp > 40
    [] name = "caster_hp_more_than_90" -> d.caster.hp > 90
    [] name = "just_want_return_false" -> FALSE
    [] name = "always_true" -> TRUE

create_default_tree ==
  [n |-> 8,
   parent |-> <<0, 1, 2, 3, 1, 5, 1, 7>>,
   priority |-> <<5, 3, 4, 6, 2, 8, 1, 7>>,
   condition |-> <<"caster_hp_more_than_50", "caster_sp_more_than_20",
                   "target_hp_less_than_30", "just_want_return_false",
                   "target_sp_more_than_40", "just_want_return_false",
                   "caster_hp_more_than_90", "just_want_return_false">>,
   value |-> <<1, 2, 3, 4, 5, 6, 7, 8>>,
   skill |-> <<"MageAttack", "MageAttack", "RogueSpecial", "RogueAttack",
               "MageSpecial", "RogueAttack", "RogueAttack", "RogueSpecial">>]

RECURSIVE ChildrenOf(_, _, _)
(* self.children, in order.                                                *)
ChildrenOf(t, i, j) ==
  IF j > t.n THEN <<>>
  ELSE (IF t.parent[j] = i THEN <<j>> ELSE <<>>) \o ChildrenOf(t, i, j + 1)

RECURSIVE helper_get_all_path(_, _)
RECURSIVE PathsThrough(_, _, _)
(* Lines 90-95: the paths of every child, each with node i put in front.   *)
PathsThrough(t, i, kids) ==
  IF kids = <<>> THEN <<>>
  ELSE LET p == helper_get_all_path(t, Head(kids))
       IN [k \in 1..Len(p) |-> <<i>> \o p[k]] \o PathsThrough(t, i, Tail(kids))

(* helper_get_all_path (lines 86-96): every root-to-leaf path below node   *)
(* i, as the sequence of its nodes.  The entry [priority, value,           *)
(* condition(caster, target)] of a node is read from the tree.             *)
helper_get_all_path(t, i) ==
  LET kids == ChildrenOf(t, i, 1)
  IN IF kids = <<>> THEN <<<<i>>>> ELSE PathsThrough(t, i, kids)

Holds(t, d, i) == Condition(t.condition[i], d)

RECURSIVE ScanPath(_, _, _, _, _)
(* Lines 133-138: the first node of the path whose condition is false and  *)
(* whose priority and skill object are not collected yet.                  *)
ScanPath(t, d, path, k, acc) ==
  IF k > Len(path) THEN acc
  ELSE LET i == path[k]
       IN IF /\ ~Holds(t, d, i)
             /\ ~InSeq(t.priority[i], acc.skills_priority)
             /\ ~InSeq(t.value[i], acc.skills)
          THEN [skills |-> Append(acc.skills, t.value[i]),
                skills_priority |-> Append(acc.skills_priority,
                                           t.priority[i])]
          ELSE ScanPath(t, d, path, k + 1, acc)

RECURSIVE CollectSkills(_, _, _, _, _)
(* Lines 128-138: a path whose first node is false adds it and ends the    *)
(* loop over the paths.                                                    *)
CollectSkills(t, d, paths, p, acc) ==
  IF p > Len(paths) THEN acc
  ELSE LET path == paths[p]
       IN IF ~Holds(t, d, path[1])
          THEN [skills |-> Append(acc.skills, t.value[path[1]]),
                skills_priority |-> Append(acc.skills_priority,
                                           t.priority[path[1]])]
          ELSE CollectSkills(t, d, paths, p + 1, ScanPath(t, d, path, 1, acc))

(* LowestPosition with max for min in line 141.                            *)
HighestPosition(sp) ==
  LET hits == {i \in 1..Len(sp) : sp[i] = MaxOf({sp[k] : k \in 1..Len(sp)})}
  IN IF hits = {} THEN 1 ELSE MaxOf(hits)

(* Lines 139-142: the last index holding the lowest priority, 0-based in   *)
(* the source, 1-based here; index 1 if there is none.                     *)
LowestPosition(sp) ==
  LET hits == {i \in 1..Len(sp) : sp[i] = MinOf({sp[k] : k \in 1..Len(sp)})}
  IN IF hits = {} THEN 1 ELSE MaxOf(hits)

(* pick_skill (lines 125-143).  skills[position] of an empty list raises   *)
(* IndexError.  The result is the skill object and its class.              *)
pick_skill(t, d) ==
  LET acc == CollectSkills(t, d, helper_get_all_path(t, 1), 1,
                           [skills |-> <<>>, skills_priority |-> <<>>])
      position == LowestPosition(acc.skills_priority)
  IN IF acc.skills = <<>> THEN Fault
     ELSE [fault |-> FALSE, val |-> acc.skills[position],
           act |-> t.skill[acc.skills[position]]]

(***************************************************************************)
(* The state machine: the live queue and the last call made on it.         *)
(***************************************************************************)
MageHPs == {7, 14}
RogueHPs == {10, 40}
MageSPs == {2, 5, 30, 35}
RogueSPs == {2, 6, 13}

RECURSIVE SeqsUpTo(_)
SeqsUpTo(n) ==
  IF n = 0 THEN {<<>>}
  ELSE LET shorter == SeqsUpTo(n - 1)
       IN shorter \cup {Append(s, p) : s \in shorter, p \in Players}

NoTree ==
  [n |-> 0, parent |-> <<>>, priority |-> <<>>, condition |-> <<>>,
   value |-> <<>>, skill |-> <<>>]

Stats(h, s) == [hp |-> h, sp |-> s]

NoDuel == [caster |-> Stats(100, 100), target |-> Stats(100, 100)]

Init ==
  /\ \E c \in SeqsUpTo(MaxQueue), h1 \in MageHPs, h2 \in RogueHPs,
        s1 \in MageSPs, s2 \in RogueSPs :
        bq = [content |-> c, hp |-> <<h1, h2>>, sp |-> <<s1, s2>>]
  /\ op = "init"
  /\ res = NoResult
  /\ tree = NoTree
  /\ duel = NoDuel
  /\ picked = NoResult

(* One turn of the game: the head actor acts and leaves the front.         *)
TakeTurn(a) ==
  /\ ~is_over(bq)
  /\ is_valid_action(bq, peek(bq), a)
  /\ bq' = Successor(bq, a)
  /\ op' = "turn"
  /\ res' = NoResult
  /\ UNCHANGED <<tree, duel, picked>>

(* bq.remove() and bq.add(character), as the doctests call them.           *)
Remove ==
  /\ ~is_empty(bq)
  /\ bq' = remove(bq)
  /\ op' = "remove"
  /\ res' = NoResult
  /\ UNCHANGED <<tree, duel, picked>>

Add(p) ==
  /\ Len(bq.content) < MaxQueue
  /\ bq' = add(bq, p)
  /\ op' = "add"
  /\ res' = NoResult
  /\ UNCHANGED <<tree, duel, picked>>

GetStateScore ==
  /\ bq' = ScoreLive(Live(bq)).q
  /\ op' = "score"
  /\ res' = get_state_score(bq)
  /\ UNCHANGED <<tree, duel, picked>>

RecursiveSelect ==
  /\ bq' = RecursiveLive(Live(bq)).q
  /\ op' = "recursive"
  /\ res' = recursive_select_attack(bq)
  /\ UNCHANGED <<tree, duel, picked>>

IterativeSelect ==
  /\ bq' = IterativeLive(Live(bq)).q
  /\ op' = "iterative"
  /\ res' = iterative_select_attack(bq)
  /\ UNCHANGED <<tree, duel, picked>>

Next ==
  \/ \E a \in {"A", "S"} : TakeTurn(a)
  \/ Remove
  \/ \E p \in Players : Add(p)
  \/ GetStateScore
  \/ RecursiveSelect
  \/ IterativeSelect

Spec == Init /\ [][Next]_vars

(***************************************************************************)
(* The skill decision tree on its own: every tree of at most MaxNodes      *)
(* nodes with unique priorities and constant conditions, and the default   *)
(* tree with casters and targets around its thresholds.                    *)
(***************************************************************************)
Perms(n) ==
  {f \in [1..n -> 1..n] : \A i, j \in 1..n : f[i] = f[j] => i = j}

Shapes(n) ==
  {f \in [1..n -> 0..n] : f[1] = 0 /\ \A i \in 2..n : f[i] \in 1..(i - 1)}

SmallTrees(n) ==
  {[n |-> n, parent |-> par, priority |-> pri, condition |-> con,
    value |-> [i \in 1..n |-> i], skill |-> [i \in 1..n |-> "Skill"]] :
      par \in Shapes(n), pri \in Perms(n),
      con \in [1..n -> {"always_true", "just_want_return_false"}]}

DuelHPs == {10, 50, 100}
DuelSPs == {10, 30, 40, 100}

Duels ==
  {[caster |-> Stats(ch, cs), target |-> Stats(th, ts)] :
     ch \in DuelHPs, cs \in DuelSPs, th \in DuelHPs, ts \in DuelSPs}

SkillInit ==
  /\ \/ \E n \in 1..MaxNodes : tree \in SmallTrees(n) /\ duel = NoDuel
     \/ tree = create_default_tree /\ duel \in Duels
  /\ op = "init"
  /\ picked = NoResult
  /\ res = NoResult
  /\ bq = [content |-> <<>>, hp |-> <<0, 0>>, sp |-> <<0, 0>>]

PickSkill ==
  /\ picked' = pick_skill(tree, duel)
  /\ op' = "pick"
  /\ UNCHANGED <<bq, res, tree, duel>>

SkillNext == PickSkill

SkillSpec == SkillInit /\ [][SkillNext]_vars

(***************************************************************************)
(* A duel with a Vampire (a2_skills.py:165-253): player 1 is the Mage "m", *)
(* player 2 a Vampire "v".  The Vampire's defence is not in the source:    *)
(* the queue record carries it as vdef, drawn from VampireDefenses.        *)
(***************************************************************************)
VampireAttackCost == 15
VampireAttackDamage == 20
VampireSpecialCost == 20
VampireSpecialDamage == 30

VampireDefenses == {3, 10}

duel_sp_cost(p, a) ==
  IF p = 1 THEN get_sp_cost("Mage", a)
  ELSE IF a = "A" THEN VampireAttackCost ELSE VampireSpecialCost

duel_valid_action(q, p, a) == q.sp[p] >= duel_sp_cost(p, a)

(* What is left of hp after a hit of dmg on a defence of def.              *)
apply_damage(hp, dmg, def) ==
  IF hp - (dmg - def) < 0 THEN 0 ELSE hp - (dmg - def)

(* The Mage's skills on the Vampire (NormalAttack.use, MageSpecial.use).   *)
mage_use(q, a) ==
  [q EXCEPT !.sp[1] = @ - get_sp_cost("Mage", a),
            !.hp[2] = apply_damage(@, skill_damage("Mage", a), q.vdef),
            !.content = @ \o queue_adds(1, a)]

(* vampire_use without the cost _deal_damage takes from the caster.        *)
vampire_use_free(q, a) ==
  LET dmg  == IF a = "A" THEN VampireAttackDamage ELSE VampireSpecialDamage
      left == apply_damage(q.hp[1], dmg, MageDefense)
  IN [q EXCEPT !.hp[1] = left,
               !.hp[2] = @ + (q.hp[1] - left),
               !.content = @ \o (IF a = "A" THEN <<2>> ELSE <<2, 2, 1>>)]

(* VampireAttack.use (lines 197-206) and VampireSpecial.use (lines         *)
(* 242-253): the caster gains the HP the target loses.                     *)
vampire_use(q, a) ==
  LET dmg  == IF a = "A" THEN VampireAttackDamage ELSE VampireSpecialDamage
      left == apply_damage(q.hp[1], dmg, MageDefense)
  IN [q EXCEPT !.sp[2] = @ - duel_sp_cost(2, a),
               !.hp[1] = left,
               !.hp[2] = @ + (q.hp[1] - left),
               !.content = @ \o (IF a = "A" THEN <<2>> ELSE <<2, 2, 1>>)]

duel_use(q, p, a) == IF p = 1 THEN mage_use(q, a) ELSE vampire_use(q, a)

VampireHPs == {30, 100}
VampireSPs == {10, 35, 50}
DuelMageHPs == {14, 100}
DuelMageSPs == {2, 10, 35}

PlayInit ==
  /\ \E c \in SeqsUpTo(MaxQueue) \ {<<>>}, h1 \in DuelMageHPs,
        h2 \in VampireHPs, s1 \in DuelMageSPs, s2 \in VampireSPs,
        d \in VampireDefenses :
        bq = [content |-> c, hp |-> <<h1, h2>>, sp |-> <<s1, s2>>, vdef |-> d]
  /\ op = "init"
  /\ res = NoResult
  /\ tree = NoTree
  /\ duel = NoDuel
  /\ picked = NoResult

(* One turn: the head actor uses a skill it can pay for and leaves the     *)
(* front of the queue.                                                     *)
PlayTurn(a) ==
  /\ ~is_over(bq)
  /\ duel_valid_action(bq, peek(bq), a)
  /\ bq' = remove(duel_use(bq, peek(bq), a))
  /\ op' = "play"
  /\ UNCHANGED <<res, tree, duel, picked>>

PlayNext == \E a \in {"A", "S"} : PlayTurn(a)

PlaySpec == PlayInit /\ [][PlayNext]_vars

(***************************************************************************)
(* Properties.                                                             *)
(***************************************************************************)
HeadActions(q) == get_available_actions(q, peek(q))

(* The score of the state an action leads to, seen by the actor who moves. *)
ActionValue(q, a) == ChildScore(q, Successor(q, a))

(* C1: for every state that is not over and whose head actor has a legal   *)
(* action, get_state_score returns a value, and it is the maximum over the *)
(* legal actions of the successor's score, negated when the successor's    *)
(* head has another name than the mover.                                   *)
C1_ExactMinimax ==
  (op = "score" /\ ~is_over(bq) /\ HeadActions(bq) # <<>>)
    => /\ ~res.fault
       /\ \A k \in 1..Len(HeadActions(bq)) :
            ~ActionValue(bq, HeadActions(bq)[k]).fault
       /\ res.val = MaxOf({ActionValue(bq, HeadActions(bq)[k]).val :
                             k \in 1..Len(HeadActions(bq))})

(* C2: for a state that is over, get_state_score returns the winner's HP   *)
(* if the head actor has the winner's name, minus the winner's HP if the   *)
(* head actor has another name, and 0 if there is no winner.               *)
C2_TerminalScore ==
  (op = "score" /\ is_over(bq))
    => /\ get_winner(bq) = 0 => res = Ok(0)
       /\ (get_winner(bq) # 0 /\ ~is_empty(bq)
             /\ get_name(peek(bq)) = get_name(get_winner(bq)))
            => res = Ok(bq.hp[get_winner(bq)])
       /\ (get_winner(bq) # 0 /\ ~is_empty(bq)
             /\ get_name(peek(bq)) # get_name(get_winner(bq)))
            => res = Ok(-1 * bq.hp[get_winner(bq)])

C2_Witness ==
  /\ op = "score"
  /\ is_over(bq)
  /\ ~is_empty(bq)
  /\ get_winner(bq) # 0
  /\ get_name(peek(bq)) # get_name(get_winner(bq))
  /\ res.val < 0

(* C3: in a state that is not over, whose head actor has a legal action    *)
(* and for which get_state_score returns a value, the action a selector    *)
(* (recursive or iterative) returns is a legal action that leads to that   *)
(* value.                                                                  *)
C3_SelectorsAgree ==
  (/\ op \in {"recursive", "iterative"}
   /\ ~is_over(bq)
   /\ HeadActions(bq) # <<>>
   /\ ~get_state_score(bq).fault)
    => /\ ~res.fault
       /\ InSeq(res.act, HeadActions(bq))
       /\ ActionValue(bq, res.act) = get_state_score(bq)

(* C4: whenever the head actor has a legal action, the recursive selector  *)
(* returns a legal action whose successor score, seen by the mover, is the *)
(* score of the state, and it is the first action if that one achieves it. *)
(* Stated for the states that are not over, where a selector is called.    *)
C4_RecursiveOptimal ==
  (op = "recursive" /\ ~is_over(bq) /\ HeadActions(bq) # <<>>)
    => /\ ~res.fault
       /\ InSeq(res.act, HeadActions(bq))
       /\ ActionValue(bq, res.act) = get_state_score(bq)
       /\ ActionValue(bq, HeadActions(bq)[1]) = get_state_score(bq)
            => res.act = HeadActions(bq)[1]

(* C5: when the head actor has no legal action, both selectors return 'X'  *)
(* and raise nothing, whatever else the queue holds.                       *)
C5_NoMoveSentinel ==
  (/\ op \in {"recursive", "iterative"}
   /\ ~is_empty(bq)
   /\ HeadActions(bq) = <<>>)
    => res = Chose("X")

C5_Witness ==
  /\ op = "iterative"
  /\ Len(bq.content) >= 2
  /\ HeadActions(bq) = <<>>
  /\ get_available_actions(bq, bq.content[2]) # <<>>
  /\ res = Chose("X")

(* C6: with the Mage (HP 14, SP 35) at the head and the Rogue (HP 40,      *)
(* SP 6) behind it, get_state_score returns 7.                             *)
SampleQueue == [content |-> <<1, 2>>, hp |-> <<14, 40>>, sp |-> <<35, 6>>]

C6_SampleScore == (op = "score" /\ bq = SampleQueue) => res = Ok(7)

C6_Witness == op = "score" /\ bq = SampleQueue /\ res.val = 7

(* C7: get_state_score and both selectors leave the queue they are given   *)
(* as it was: the same actors in the same order with the same HP and SP,   *)
(* hence the same head, is_over() and get_winner().                        *)
C7_QueueUnchanged ==
  [][op' \in {"score", "recursive", "iterative"} => bq' = bq]_vars

C7_Witness ==
  /\ op \in {"score", "recursive", "iterative"}
  /\ ~is_over(bq)
  /\ Len(HeadActions(bq)) = 2
  /\ ~res.fault

(* The first node of a path whose condition is false, 0 if there is none.  *)
FirstFalse(t, d, path) ==
  LET ks == {k \in 1..Len(path) : ~Holds(t, d, path[k])}
  IN IF ks = {} THEN 0 ELSE path[MinOf(ks)]

Candidates(t, d) ==
  LET paths == helper_get_all_path(t, 1)
  IN {FirstFalse(t, d, paths[p]) : p \in 1..Len(paths)} \ {0}

(* C8: pick_skill returns the skill of the candidate with the lowest       *)
(* priority, the candidates being the first false node of every            *)
(* root-to-leaf path.                                                      *)
C8_LowestPriorityCandidate ==
  (op = "pick" /\ Candidates(tree, duel) # {})
    => /\ ~picked.fault
       /\ \E i \in Candidates(tree, duel) :
            /\ \A j \in Candidates(tree, duel) :
                 tree.priority[i] <= tree.priority[j]
            /\ picked.val = tree.value[i]

(* C9: when every condition of the tree is true, pick_skill raises nothing *)
(* and returns the skill of the root.                                      *)
C9_AllTrueFallback ==
  (op = "pick" /\ \A i \in 1..tree.n : Holds(tree, duel, i))
    => ~picked.fault /\ picked.val = tree.value[1]

(* C10: on the default tree pick_skill returns the MageSpecial for a       *)
(* caster with HP 100, SP 40 and a target with HP 50, SP 30, and the       *)
(* RogueSpecial when both have HP 100 and SP 100.                          *)
DoctestDuel == [caster |-> Stats(100, 40), target |-> Stats(50, 30)]

C10_DefaultTree ==
  (op = "pick" /\ tree = create_default_tree)
    => /\ duel = DoctestDuel
            => ~picked.fault /\ picked.act = "MageSpecial"
       /\ duel = NoDuel
            => ~picked.fault /\ picked.act = "RogueSpecial"

C10_Witness ==
  /\ op = "pick"
  /\ tree = create_default_tree
  /\ duel = DoctestDuel
  /\ picked.act = "MageSpecial"

(* The SP the two actors have left: what a play uses up.                   *)
TotalSP(q) == q.sp[1] + q.sp[2]

(* C11 as stated: plays end because health only ever goes down, so no turn *)
(* leaves an actor with more HP than before.                               *)
C11_HealthDecreases ==
  [][op' = "play" => \A p \in Players : bq'.hp[p] <= bq.hp[p]]_vars

(* C11 amended: every turn strictly lowers the SP the actors have left,    *)
(* and SP never goes below 0, so a play has finitely many turns.           *)
C11_SPDecreases ==
  [][op' = "play" => /\ TotalSP(bq') < TotalSP(bq)
                     /\ \A p \in Players : bq'.sp[p] >= 0]_vars

C11_Witness ==
  /\ op = "play"
  /\ bq.hp[2] > MaxOf(VampireHPs)
  /\ bq.sp[2] < MaxOf(VampireSPs)

RECURSIVE Worth(_, _)
(* What a state is worth to player p when the actor to move always picks   *)
(* the action that is worth most to itself: the winner's HP to the winner, *)
(* its negation to the loser, 0 for a tie.                                 *)
Worth(q, p) ==
  IF is_over(q)
  THEN IF get_winner(q) = 0 THEN 0
       ELSE IF get_winner(q) = p THEN q.hp[p] ELSE -1 * q.hp[get_winner(q)]
  ELSE LET m    == peek(q)
           acts == get_available_actions(q, m)
           best == MaxOf({Worth(Successor(q, acts[i]), m) :
                            i \in 1..Len(acts)})
       IN IF acts = <<>> THEN 0 ELSE IF p = m THEN best ELSE -1 * best

(* C12: the value get_state_score returns is what the state is worth to    *)
(* the actor at the head, a state being worth v to one actor and -v to the *)
(* other: a successor counts negated when another name moves next and      *)
(* unchanged when the same name moves again.                               *)
C12_ZeroSum ==
  (op = "score" /\ ~is_empty(bq) /\ ~res.fault)
    => /\ res.val = Worth(bq, peek(bq))
       /\ res.val = -1 * Worth(bq, enemy(peek(bq)))

C12_Witness ==
  /\ op = "score"
  /\ ~is_over(bq)
  /\ ~res.fault
  /\ res.val # 0
  /\ \E a, b \in {"A", "S"} :
        /\ InSeq(a, HeadActions(bq)) /\ InSeq(b, HeadActions(bq))
        /\ peek(Successor(bq, a)) # peek(bq)
        /\ peek(Successor(bq, b)) = peek(bq)
        /\ ActionValue(bq, b).val # 0

(* C13: for every legal action of a state that is not over, the successor  *)
(* the recursive selector builds is the successor get_state_score builds:  *)
(* the same queue, the same head, the same HP and SP.                      *)
C13_SameSuccessor ==
  (op = "recursive" /\ ~is_over(bq))
    => \A k \in 1..Len(HeadActions(bq)) :
         SelectSuccessor(bq, HeadActions(bq)[k])
           = Successor(bq, HeadActions(bq)[k])

(* The score IterativeMinimax.select_attack reads as the root's (line 387): *)
(* the score of the last entry of the last recorded path, <<>> if there is *)
(* no path.                                                                *)
RootScore(t) ==
  IF t.possible_paths = <<>> THEN <<>>
  ELSE LET last == t.possible_paths[Len(t.possible_paths)]
       IN EntryScore(t, last[Len(last)])

(* C14: when the root actor has two legal actions and get_state_score      *)
(* returns a value, the root score the iterative selector reads after      *)
(* helper_assign_all_scores is that value; 7 in the sample scenario.       *)
C14_RootScore ==
  (/\ op = "iterative"
   /\ ~is_over(bq)
   /\ Len(HeadActions(bq)) = 2
   /\ ~get_state_score(bq).fault)
    => /\ RootScore(helper_assign_all_scores(bq)) # <<>>
       /\ RootScore(helper_assign_all_scores(bq))[1]
            = get_state_score(bq).val
       /\ bq = SampleQueue
            => RootScore(helper_assign_all_scores(bq))[1] = 7

(* C15: when the root actor has two legal actions (and the exhaustive      *)
(* search of the state returns a value), the iterative selector finds a    *)
(* path, a resolved root score and a matching child of the root: it        *)
(* returns 'A' or 'S' and raises nothing.                                  *)
C15_NoMissingScore ==
  (/\ op = "iterative"
   /\ ~is_over(bq)
   /\ Len(HeadActions(bq)) = 2
   /\ ~get_state_score(bq).fault)
    => /\ helper_assign_all_scores(bq).possible_paths # <<>>
       /\ RootScore(helper_assign_all_scores(bq)) # <<>>
       /\ ~res.fault
       /\ res.act \in {"A", "S"}

(* C19: when the root actor has exactly one legal action (and the          *)
(* exhaustive search of the state returns a value), the iterative selector *)
(* returns that action and raises nothing.                                 *)
C19_SingleAction ==
  (/\ op = "iterative"
   /\ ~is_over(bq)
   /\ Len(HeadActions(bq)) = 1
   /\ ~get_state_score(bq).fault)
    => res = Chose(HeadActions(bq)[1])

(* The (path, position) pairs of a tree's recorded paths.                  *)
Positions(t) ==
  UNION {{<<p, i>> : i \in 1..Len(t.possible_paths[p])} :
           p \in 1..Len(t.possible_paths)}

ScoreAt(t, x) == EntryScore(t, t.possible_paths[x[1]][x[2]])

SameScores(t) ==
  \A x, y \in Positions(t) :
    t.possible_paths[x[1]][x[2]].node = t.possible_paths[y[1]][y[2]].node
      => /\ (ScoreAt(t, x) = <<>>) <=> (ScoreAt(t, y) = <<>>)
         /\ ScoreAt(t, x) # <<>> => ScoreAt(t, x)[1] = ScoreAt(t, y)[1]

(* C16: after helper_assign_all_scores every entry of possible_paths that  *)
(* refers to the same node carries the same score: none is empty while     *)
(* another is resolved, and no two hold different first values.            *)
C16_SharedScores ==
  (op = "iterative" /\ ~is_over(bq) /\ ~get_state_score(bq).fault)
    => SameScores(helper_assign_all_scores(bq))

(* Every entry above the leaf whose node has two legal actions is recorded *)
(* in snppc under its node, at its own (path, position).                   *)
SnppcComplete(T) ==
  \A x \in Positions(T) :
    (x[2] >= 2 /\ NumActions(T.nodes[T.possible_paths[x[1]][x[2]].node]) = 2)
      => \E k \in 1..Len(T.snppc) :
           /\ T.snppc[k].key = NodeKey(T.possible_paths[x[1]][x[2]].node)
           /\ InSeq(x, T.snppc[k].pos)

(* Every pair recorded in snppc points at an entry of the node of its key. *)
SnppcSound(T) ==
  \A k \in 1..Len(T.snppc) :
    \A j \in 1..Len(T.snppc[k].pos) :
      /\ T.snppc[k].pos[j] \in Positions(T)
      /\ T.snppc[k].key
           = NodeKey(T.possible_paths[T.snppc[k].pos[j][1]]
                                     [T.snppc[k].pos[j][2]].node)

(* C17: after helper_get_the_whole_tree snppc records, under the node's    *)
(* key, the (path, position) of every parent entry whose actor had two     *)
(* legal actions, and every recorded pair points at an entry of its node.  *)
C17_SnppcExact ==
  (op = "iterative" /\ ~is_over(bq) /\ ~get_state_score(bq).fault)
    => /\ SnppcComplete(helper_get_the_whole_tree(bq))
       /\ SnppcSound(helper_get_the_whole_tree(bq))

(* The score the claim gives a node with queue q at creation: what the     *)
(* state is worth to the actor at its head if it is over, else no score.   *)
CreationScore(q) == IF is_over(q) THEN <<Worth(q, peek(q))>> ELSE <<>>

(* C18: every child node of the tree is created with the score of its      *)
(* state (the winner's HP if the winner is at its head, minus the winner's *)
(* HP if not, 0 without a winner, no score if the state is not over), and  *)
(* the score list of a terminal node is the same after the scores have     *)
(* been assigned.                                                          *)
C18_ScoreAtCreation ==
  (op = "iterative" /\ ~is_empty(bq))
    => \A i \in 2..Len(helper_assign_all_scores(bq).nodes) :
         /\ helper_assign_all_scores(bq).nodes[i].score
              = CreationScore(helper_assign_all_scores(bq).nodes[i].battle_q)
         /\ is_over(helper_assign_all_scores(bq).nodes[i].battle_q)
              => helper_assign_all_scores(bq).cells[i]
                   = helper_assign_all_scores(bq).nodes[i].score

(* A tree with a terminal child, scored with its winner's HP, and a child  *)
(* that is not over.                                                       *)
C18_Witness ==
  /\ op = "iterative"
  /\ ~is_empty(bq)
  /\ \E j, k \in 2..Len(helper_get_the_whole_tree(bq).nodes) :
        /\ is_over(helper_get_the_whole_tree(bq).nodes[j].battle_q)
        /\ helper_get_the_whole_tree(bq).nodes[j].score # <<>>
        /\ helper_get_the_whole_tree(bq).nodes[j].score[1] > 0
        /\ ~is_over(helper_get_the_whole_tree(bq).nodes[k].battle_q)
        /\ helper_get_the_whole_tree(bq).nodes[k].score = <<>>

(* C21: for every legal action of a state that is not over (and that the   *)
(* exhaustive search gives a value), the child get_children_and_update     *)
(* builds and the successor get_state_score builds are the same outcome    *)
(* for the parent: both over or both not, the same winner, and the same    *)
(* value of get_state_score once re-anchored by name to the actor who      *)
(* moved.                                                                  *)
C21_SameOutcome ==
  (op = "iterative" /\ ~is_over(bq) /\ ~get_state_score(bq).fault)
    => \A k \in 1..Len(HeadActions(bq)) :
         /\ is_over(TreeSuccessor(bq, HeadActions(bq)[k]))
              = is_over(Successor(bq, HeadActions(bq)[k]))
         /\ get_winner(TreeSuccessor(bq, HeadActions(bq)[k]))
              = get_winner(Successor(bq, HeadActions(bq)[k]))
         /\ ChildScore(bq, TreeSuccessor(bq, HeadActions(bq)[k]))
              = ChildScore(bq, Successor(bq, HeadActions(bq)[k]))

=============================================================================
